---- MODULE Spec2Model ----
(***************************************************************************)
(* Substance Use Risk Prediction (Streamlit application).                  *)
(*                                                                         *)
(* The repository holds two variants of one script:                        *)
(*   "A"  src/Streamlitvworking14app.py    (key file credentials,          *)
(*        one validation message per required field)                      *)
(*   "B"  src/Streamlitvworking14(app).py  (credentials from secrets,      *)
(*        validation over the fetched row's own columns)                   *)
(* A script run is one execution of the file from top to bottom; Streamlit *)
(* starts one each time a widget changes or the button is pressed.         *)
(***************************************************************************)
EXTENDS Integers, Sequences, FiniteSets, TLC

VARIABLES
    variant,      \* which of the two scripts is deployed
    model_file,   \* whether model2.pkl exists on disk
    worksheet,    \* the remote worksheet: what get_all_records() returns
    user_id,      \* value of the text input "Enter your ID:"
    clicked,      \* whether the last run was started by the button
    trigger,      \* the widget whose change started the last run
    env,          \* outcome of the external calls of the last run
    prev_failed,  \* whether the run before the last one showed an error
    log,          \* external calls made by the last run, in order
    screen,       \* elements rendered by the last run, in order
    locals,       \* the script's variables at the end of the last run
    found_row,    \* what the fetch of the last run returned to the handler
    input_data,   \* the table handed to model.predict in the last run
    halt          \* how the last run ended: "none", "stop", "exception"

vars == <<variant, model_file, worksheet, user_id, clicked, trigger, env,
          prev_failed, log, screen, locals, found_row, input_data, halt>>

-----------------------------------------------------------------------------
(* Python values.  A string is a sequence of one-character strings; a float *)
(* is the rational n/d (d > 0).  "int" is a Python int, "int64" a numpy     *)
(* integer scalar, "float" a Python float or numpy.float64, "nan" the float *)
(* NaN, "None" Python's None, "raise" a raised exception named by s.        *)

Val(k, n, d, s) == [k |-> k, n |-> n, d |-> d, s |-> s]
PyInt(n)      == Val("int", n, 1, <<>>)
NpInt(n)      == Val("int64", n, 1, <<>>)
PyFloat(n, d) == Val("float", n, d, <<>>)
PyStr(s)      == Val("str", 0, 1, s)
NaN           == Val("nan", 0, 1, <<>>)
None          == Val("None", 0, 1, <<>>)
Raise(name)   == Val("raise", 0, 1, <<name>>)

Raised(v) == v.k = "raise"

Lowers == <<"a","b","c","d","e","f","g","h","i","j","k","l","m",
            "n","o","p","q","r","s","t","u","v","w","x","y","z">>
Uppers == <<"A","B","C","D","E","F","G","H","I","J","K","L","M",
            "N","O","P","Q","R","S","T","U","V","W","X","Y","Z">>
Digits == <<"0","1","2","3","4","5","6","7","8","9">>

IndexIn(seq, c) == CHOOSE i \in 1..Len(seq) : seq[i] = c
Occurs(seq, c)  == \E i \in 1..Len(seq) : seq[i] = c

\* one character of str.lower() / str.upper()
lowerChar(c) == IF Occurs(Uppers, c) THEN Lowers[IndexIn(Uppers, c)] ELSE c
upperChar(c) == IF Occurs(Lowers, c) THEN Uppers[IndexIn(Lowers, c)] ELSE c

\* str.lower()
lower(s) == [i \in 1..Len(s) |-> lowerChar(s[i])]

\* str.capitalize(): first character upper-cased, the rest lower-cased
capitalize(s) ==
    [i \in 1..Len(s) |-> IF i = 1 THEN upperChar(s[i]) ELSE lowerChar(s[i])]

IsDigit(c)  == Occurs(Digits, c)
DigitVal(c) == IndexIn(Digits, c) - 1

RECURSIVE NatToStr(_)
NatToStr(n) ==
    IF n < 10 THEN <<Digits[n + 1]>>
    ELSE NatToStr(n \div 10) \o <<Digits[(n % 10) + 1]>>

IntToStr(n) == IF n < 0 THEN <<"-">> \o NatToStr(-n) ELSE NatToStr(n)

\* digits after the point in repr(float) for the halves the model uses
FracToStr(n, d) == IF (n % d) = 0 THEN <<"0">> ELSE <<"5">>

\* Python str(x)
str(v) ==
    CASE v.k = "str"            -> v.s
      [] v.k \in {"int", "int64"} -> IntToStr(v.n)
      [] v.k = "float"          ->
            (IF v.n < 0 THEN <<"-">> ELSE <<>>)
            \o NatToStr((IF v.n < 0 THEN -v.n ELSE v.n) \div v.d)
            \o <<".">>
            \o FracToStr(IF v.n < 0 THEN -v.n ELSE v.n, v.d)
      [] v.k = "nan"            -> <<"n","a","n">>
      [] OTHER                  -> <<"N","o","n","e">>

RECURSIVE DigitsVal(_)
DigitsVal(s) ==
    IF s = <<>> THEN 0
    ELSE 10 * DigitsVal(SubSeq(s, 1, Len(s) - 1)) + DigitVal(s[Len(s)])

RECURSIVE Pow10(_)
Pow10(k) == IF k = 0 THEN 1 ELSE 10 * Pow10(k - 1)

AllDigits(s) == \A i \in 1..Len(s) : IsDigit(s[i])

RECURSIVE strip(_)
strip(s) ==
    IF s = <<>> THEN s
    ELSE IF Head(s) = " " THEN strip(Tail(s))
    ELSE IF s[Len(s)] = " " THEN strip(SubSeq(s, 1, Len(s) - 1))
    ELSE s

\* float(str): optional sign, digits, optional point and digits
ParseUnsigned(s) ==
    IF Occurs(s, ".")
    THEN LET p  == IndexIn(s, ".")
             ip == SubSeq(s, 1, p - 1)
             fp == SubSeq(s, p + 1, Len(s))
         IN IF AllDigits(ip) /\ AllDigits(fp) /\ Len(ip) + Len(fp) > 0
            THEN PyFloat(DigitsVal(ip) * Pow10(Len(fp)) + DigitsVal(fp),
                         Pow10(Len(fp)))
            ELSE Raise("ValueError")
    ELSE IF s # <<>> /\ AllDigits(s) THEN PyFloat(DigitsVal(s), 1)
    ELSE Raise("ValueError")

ParseFloat(s0) ==
    LET s == strip(s0)
    IN IF s # <<>> /\ Head(s) = "-"
       THEN LET u == ParseUnsigned(Tail(s))
            IN IF Raised(u) THEN u ELSE PyFloat(-u.n, u.d)
       ELSE IF s # <<>> /\ Head(s) = "+" THEN ParseUnsigned(Tail(s))
       ELSE ParseUnsigned(s)

\* Python float(x)
float(v) ==
    CASE v.k \in {"int", "int64"} -> PyFloat(v.n, 1)
      [] v.k \in {"float", "nan"} -> v
      [] v.k = "str"              -> ParseFloat(v.s)
      [] v.k = "raise"            -> v
      [] OTHER                    -> Raise("TypeError")

\* Python int(x) of a float: truncation toward zero
int(v) ==
    CASE v.k = "raise" -> v
      [] v.k = "nan"   -> Raise("ValueError")
      [] v.k = "float" -> PyInt(IF v.n < 0 THEN -((-v.n) \div v.d) ELSE v.n \div v.d)
      [] OTHER         -> PyInt(v.n)

\* x / k for a float x
Divide(v, k) == IF Raised(v) \/ v.k = "nan" THEN v ELSE PyFloat(v.n, v.d * k)

\* pandas.isna(x) of a scalar
isna(v) == v.k \in {"nan", "None"}

\* isinstance(x, (int, float)): numpy.float64 derives from float,
\* numpy.int64 does not derive from int
IsIntOrFloat(v) == v.k \in {"int", "float", "nan"}

-----------------------------------------------------------------------------
(* pandas: DataFrame(list of dicts), column dtypes, and the row .iloc[0]    *)
(* returns.  A worksheet is the list of dicts get_all_records() returns,    *)
(* each dict a function from column names to values.                        *)

Columns(ws) == UNION {DOMAIN ws[i] : i \in 1..Len(ws)}

\* a key missing from one dict is NaN in the frame
Cell(ws, i, c) == IF c \in DOMAIN ws[i] THEN ws[i][c] ELSE NaN

ColumnDtype(ws, c) ==
    LET kinds == {Cell(ws, i, c).k : i \in 1..Len(ws)}
    IN IF kinds = {"int"} THEN "int64"
       ELSE IF kinds \subseteq {"int", "float", "nan", "None"} /\ kinds # {"None"}
            THEN "float64"
       ELSE "object"

\* dtype of the Series one row of the frame becomes
RowDtype(ws) ==
    LET dts == {ColumnDtype(ws, c) : c \in Columns(ws)}
    IN IF dts = {"int64"} THEN "int64"
       ELSE IF dts \subseteq {"int64", "float64"} THEN "float64"
       ELSE "object"

\* the element of row i in column c, as the scalar the column holds
ColumnValue(ws, i, c) ==
    LET v  == Cell(ws, i, c)
        dt == ColumnDtype(ws, c)
    IN IF dt = "int64" THEN NpInt(v.n)
       ELSE IF dt = "float64"
       THEN (IF v.k = "int" THEN PyFloat(v.n, 1)
             ELSE IF v.k = "None" THEN NaN ELSE v)
       ELSE v

\* .iloc[i]: the row as a Series; a frame of integer and float columns only
\* gives a float Series
iloc(ws, i) ==
    LET rd == RowDtype(ws)
    IN [c \in Columns(ws) |->
          LET x == ColumnValue(ws, i, c)
          IN IF rd = "float64" /\ x.k = "int64" THEN PyFloat(x.n, 1) ELSE x]

\* Series.get(key, None)
get(row, c) == IF c \in DOMAIN row THEN row[c] ELSE None

-----------------------------------------------------------------------------
(* One script run is threaded through a context: the calls made, the        *)
(* elements rendered, the variables bound, what the fetch returned, the     *)
(* table given to the classifier, and how the run ended.                    *)

NoRow == [found |-> FALSE, data |-> <<>>, error_msg |-> ""]
NoInput == <<>>

El(el, key, val, mark, items) ==
    [el |-> el, key |-> key, val |-> val, mark |-> mark, items |-> items]

Ctx0 == [log |-> <<>>, screen |-> <<>>, locals |-> <<>>, found_row |-> NoRow,
         input_data |-> NoInput, halt |-> "none"]

Call(c, name)  == [c EXCEPT !.log = Append(@, name)]
Emit(c, e)     == [c EXCEPT !.screen = Append(@, e)]
Halt(c, how)   == [c EXCEPT !.halt = how]
Bind(c, x, v)  ==
    [c EXCEPT !.locals = [y \in DOMAIN @ \cup {x} |-> IF y = x THEN v ELSE @[y]]]

Only(S) == CHOOSE x \in S : TRUE

\* evaluate val once and hand it to Body
Let(val, Body(_)) == Only({Body(x) : x \in {val}})

\* sequential composition: the statements of Stage run after those that gave
\* c, unless st.stop() or an uncaught exception has ended the run
Then(c, Stage(_)) == Only({IF x.halt # "none" THEN x ELSE Stage(x) : x \in {c}})

st_error(c, key, items) == Emit(c, El("error", key, 0, 0, items))

\* an exception no handler catches: Streamlit shows it and ends the run
Uncaught(c, name) == Halt(Emit(c, El("exception", name, 0, 0, <<>>)), "exception")

-----------------------------------------------------------------------------
(* Record fetcher *)

\* authenticate_google_sheets(): a failure is shown and st.stop() ends the run.
\* st.stop() raises a BaseException, which "except Exception" does not catch.
authenticate_google_sheets(c, e) ==
    IF e.creds THEN Call(c, "authorize")
    ELSE Halt(st_error(c, "Error authenticating with Google Sheets", <<>>), "stop")

\* what the function returns to its caller: (row, None) or (None, message)
Return(c, found, data, msg) ==
    [c EXCEPT !.found_row = [found |-> found, data |-> data, error_msg |-> msg]]

MatchingRows(ws, uid) ==
    {i \in 1..Len(ws) : str(ColumnValue(ws, i, "ID")) = uid}

Min(S) == CHOOSE x \in S : \A y \in S : x <= y

\* the calls after authentication; every exception becomes the error message
ReadSheet(c, e, ws, uid) ==
    IF e.remote = "network"
    THEN Return(Call(c, "open_by_url"), FALSE, <<>>, "Error accessing Google Sheets")
    ELSE IF e.remote = "malformed"
    THEN Return(Call(Call(Call(c, "open_by_url"), "worksheet"), "get_all_records"),
                FALSE, <<>>, "Error accessing Google Sheets")
    ELSE IF "ID" \notin Columns(ws)       \* data["ID"]: KeyError
    THEN Return(Call(Call(Call(c, "open_by_url"), "worksheet"), "get_all_records"),
                FALSE, <<>>, "Error accessing Google Sheets")
    ELSE IF MatchingRows(ws, uid) = {}    \* user_row.empty
    THEN Return(Call(Call(Call(c, "open_by_url"), "worksheet"), "get_all_records"),
                FALSE, <<>>, "No record found for ID")
    ELSE Return(Call(Call(Call(c, "open_by_url"), "worksheet"), "get_all_records"),
                TRUE, iloc(ws, Min(MatchingRows(ws, uid))), "")

get_row_by_id_from_google_sheet(c, e, ws, uid) ==
    Then(authenticate_google_sheets(Call(c, "get_row_by_id_from_google_sheet"), e),
         LAMBDA c1 : ReadSheet(c1, e, ws, uid))

-----------------------------------------------------------------------------
(* Feature normalizer, classifier call, risk scorer and gauge *)

RequiredFields ==
    <<"Peer pressure score", "Age", "Gender", "Confidence Level",
      "Earned Recognition", "Impulsivness", "Exclusion Anxiety",
      "People Pleaser", "Income level">>

\* the variable each required field is read into
FieldVars ==
    <<"peer_val", "age_val", "gender_val", "conf_val", "earned_val",
      "impulsive_val", "excl_val", "pp_val", "income_raw">>

\* variant A: the name each message "<name> is missing or invalid." carries
ErrorNames ==
    <<"Peer pressure score", "Age", "Gender", "Confidence Level",
      "Earned Recognition", "Impulsiveness", "Exclusion Anxiety",
      "People Pleaser score", "Income level">>

\* order of the columns in the worksheet's header row
HeaderOrder == <<"ID">> \o RequiredFields \o <<"Timestamp">>

RECURSIVE Lookups(_, _, _)
Lookups(c, row, i) ==
    IF i > Len(RequiredFields) THEN c
    ELSE Lookups(Bind(c, FieldVars[i], get(row, RequiredFields[i])), row, i + 1)

\* variant A: one pd.isna test per required field, each appending a message
RECURSIVE errors(_, _)
errors(row, i) ==
    IF i > Len(RequiredFields) THEN <<>>
    ELSE (IF isna(get(row, RequiredFields[i])) THEN <<ErrorNames[i]>> ELSE <<>>)
         \o errors(row, i + 1)

\* variant B: [k for k, v in row_data.items() if pd.isna(v)]
RECURSIVE missing(_, _)
missing(row, i) ==
    IF i > Len(HeaderOrder) THEN <<>>
    ELSE (IF HeaderOrder[i] \in DOMAIN row /\ isna(row[HeaderOrder[i]])
          THEN <<HeaderOrder[i]>> ELSE <<>>)
         \o missing(row, i + 1)

RECURSIVE WriteAll(_, _, _)
WriteAll(c, errs, i) ==
    IF i > Len(errs) THEN c
    ELSE WriteAll(Emit(c, El("write", "is missing or invalid.", 0, 0, <<errs[i]>>)),
                  errs, i + 1)

\* a validation block that reports and lets the run go on
ValidateWithoutStop(v, c, row) ==
    IF v = "A"
    THEN Let(errors(row, 1), LAMBDA errs :
            IF errs # <<>>
            THEN WriteAll(st_error(c, "The following data is missing or invalid:",
                                   <<>>), errs, 1)
            ELSE c)
    ELSE Let(missing(row, 1), LAMBDA miss :
            IF miss # <<>>
            THEN st_error(c, "Missing fields in data", miss)
            ELSE c)

\* the validation block; st.stop() ends the run when something is reported
Validate(v, c, row) ==
    IF v = "A"
    THEN Let(errors(row, 1), LAMBDA errs :
            IF errs # <<>>
            THEN Halt(WriteAll(st_error(c, "The following data is missing or invalid:",
                                        <<>>), errs, 1), "stop")
            ELSE c)
    ELSE Let(missing(row, 1), LAMBDA miss :
            IF miss # <<>>
            THEN Halt(st_error(c, "Missing fields in data", miss), "stop")
            ELSE c)

\* income_map.get(key, default)
income_map_get(key, default) ==
    CASE key = <<"L","o","w">>             -> 0
      [] key = <<"M","e","d","i","u","m">> -> 1
      [] key = <<"H","i","g","h">>         -> 2
      [] OTHER                             -> default

\* the "Income level" entry of input_data
IncomeFeature(income_raw) ==
    IF IsIntOrFloat(income_raw) THEN float(income_raw)
    ELSE PyInt(income_map_get(capitalize(str(income_raw)), 1))

\* the dict pd.DataFrame is built from; its entries are evaluated in order
Features(uid, l) ==
    <<PyStr(uid),
      Divide(float(l["peer_val"]), 100),
      int(float(l["age_val"])),
      PyStr(str(l["gender_val"])),
      float(l["conf_val"]),
      float(l["earned_val"]),
      float(l["impulsive_val"]),
      float(l["excl_val"]),
      float(l["pp_val"]),
      IncomeFeature(l["income_raw"])>>

FeatureColumns == <<"ID">> \o RequiredFields

Frame(fs) ==
    [col \in {FeatureColumns[i] : i \in 1..Len(FeatureColumns)} |->
        fs[IndexIn(FeatureColumns, col)]]

\* risk_map.get(key, default)
risk_map_get(key, default) ==
    CASE key = <<"l","o","w">>                         -> 25
      [] key = <<"m","e","d","i","u","m">>             -> 50
      [] key = <<"h","i","g","h">>                     -> 75
      [] key = <<"v","e","r","y"," ","h","i","g","h">> -> 100
      [] OTHER                                         -> default

\* a scorer that looks the label up as given, without .lower()
RiskValueAsGiven(prediction) == risk_map_get(str(prediction), 0)

RiskValue(prediction) == risk_map_get(lower(str(prediction)), 0)

\* a gauge whose threshold marker stays at the middle of the axis
GaugeMarkedAtMiddle(risk_value) ==
    El("plotly_chart", "Predicted Risk Level", risk_value, 50, <<>>)

\* go.Indicator(value=risk_value, ..., threshold={..., 'value': risk_value})
Gauge(risk_value) ==
    El("plotly_chart", "Predicted Risk Level", risk_value, risk_value, <<>>)

\* the message of the handler's "except Exception" branch
CaughtMessage(v) == IF v = "A" THEN "An error occurred" ELSE "Error during prediction"

\* st.success(...): variant B calls prediction.capitalize() on the label itself
Success(v, c, prediction) ==
    IF v = "B" /\ prediction.k # "str"
    THEN st_error(c, CaughtMessage(v), <<"AttributeError">>)
    ELSE Emit(c, El("success", "Predicted Risk Level", c.locals["risk_value"].n, 0, <<>>))

\* risk_value and the gauge, once model.predict has returned
Score(v, c, prediction) ==
    Let(Bind(Bind(c, "prediction", prediction), "risk_value",
             PyInt(RiskValue(prediction))),
        LAMBDA c1 : Success(v, Emit(c1, Gauge(c1.locals["risk_value"].n)), prediction))

\* model.predict(input_data)[0]
Invoke(v, c, fs, e) ==
    IF Raised(e.predict)
    THEN st_error(Call([c EXCEPT !.input_data = Frame(fs)], "predict"),
                  CaughtMessage(v), e.predict.s)
    ELSE Score(v, Call([c EXCEPT !.input_data = Frame(fs)], "predict"), e.predict)

\* input_data, then the prediction; "except Exception" shows what was raised
Assemble(v, c, uid, e) ==
    Let(Features(uid, c.locals), LAMBDA fs :
        IF \E i \in 1..Len(fs) : Raised(fs[i])
        THEN st_error(c, CaughtMessage(v), fs[Min({i \in 1..Len(fs) : Raised(fs[i])})].s)
        ELSE Invoke(v, c, fs, e))

\* the body of "try:" once a row was found
Predict(v, c0, uid, e) ==
    Then(Then(Let(c0, LAMBDA c : Lookups(c, c.found_row.data, 1)),
              LAMBDA c : Validate(v, c, c.found_row.data)),
         LAMBDA c : Assemble(v, c, uid, e))

-----------------------------------------------------------------------------
(* Presentation layer: trait sliders, age input, advice *)

Widget(kind, var, src, lo, hi) ==
    [kind |-> kind, var |-> var, src |-> src, lo |-> lo, hi |-> hi]

\* the six sliders all running from 0 to 100
WidgetsAllPercent ==
    <<Widget("slider", "peer_pressure", "peer_val", 0, 100),
      Widget("slider", "confidence", "conf_val", 0, 100),
      Widget("slider", "earned_recognition", "earned_val", 0, 100),
      Widget("slider", "impulsiveness", "impulsive_val", 0, 100),
      Widget("slider", "exclusion_anxiety", "excl_val", 0, 100),
      Widget("slider", "people_pleaser", "pp_val", 0, 100),
      Widget("number_input", "age", "age_val", 12, 25)>>

\* st.slider(label, min, max, value) and st.number_input, in script order
Widgets ==
    <<Widget("slider", "peer_pressure", "peer_val", 0, 100),
      Widget("slider", "confidence", "conf_val", 0, 15),
      Widget("slider", "earned_recognition", "earned_val", 0, 10),
      Widget("slider", "impulsiveness", "impulsive_val", 0, 15),
      Widget("slider", "exclusion_anxiety", "excl_val", 0, 25),
      Widget("slider", "people_pleaser", "pp_val", 0, 25),
      Widget("number_input", "age", "age_val", 12, 25)>>

\* A widget with initial value x: a value outside the widget's range raises
\* an exception; otherwise the widget, created anew in this run, returns x.
Place(c, w, x) ==
    IF Raised(x) THEN Uncaught(c, x.s[1])
    ELSE IF x.n < w.lo \/ x.n > w.hi THEN Uncaught(c, "StreamlitAPIException")
    ELSE Bind(Emit(c, El(w.kind, w.var, x.n, 0, <<>>)), w.var, x)

\* st.slider(..., int(float(<src>))): reading an unbound variable is a NameError
RenderWidget(c, w) ==
    IF w.src \notin DOMAIN c.locals THEN Uncaught(c, "NameError")
    ELSE Let(int(float(c.locals[w.src])), LAMBDA x : Place(c, w, x))

RECURSIVE RenderWidgets(_, _)
RenderWidgets(c, i) ==
    IF i > Len(Widgets) THEN c
    ELSE RenderWidgets(Then(c, LAMBDA x : RenderWidget(x, Widgets[i])), i + 1)

TraitsUI(c) ==
    RenderWidgets(Emit(c, El("subheader", "Your Psychological Traits", 0, 0, <<>>)), 1)

\* keys of trait_tips, each with three tips
TipKeys ==
    {"Peer pressure score", "Confidence Level", "Earned Recognition",
     "Impulsivness", "Exclusion Anxiety", "People Pleaser"}

TipsPerTrait == 3

\* trait_values: key and the widget variable it shows, in dict order
TraitValues ==
    <<<<"Peer pressure score", "peer_pressure">>,
      <<"Confidence Level", "confidence">>,
      <<"Earned Recognition", "earned_recognition">>,
      <<"Impulsiveness", "impulsiveness">>,
      <<"Exclusion Anxiety", "exclusion_anxiety">>,
      <<"People Pleaser", "people_pleaser">>>>

\* "risk_value > 50" and "value > 50"
RiskGate == 50
TraitCutoff == 50

\* for tip in trait_tips.get(trait, []): st.markdown(f"- {tip}")
RECURSIVE TipLines(_, _, _)
TipLines(c, trait, j) ==
    IF trait \notin TipKeys \/ j > TipsPerTrait THEN c
    ELSE TipLines(Emit(c, El("markdown", "tip", j, 0, <<trait>>)), trait, j + 1)

\* if value > 50: the heading and the trait's tips
TraitTip(c, trait, var) ==
    IF c.locals[var].n > TraitCutoff
    THEN TipLines(Emit(c, El("markdown", "heading", c.locals[var].n, 0, <<trait>>)),
                  trait, 1)
    ELSE c

RECURSIVE TraitTips(_, _)
TraitTips(c, i) ==
    IF i > Len(TraitValues) THEN c
    ELSE TraitTips(Then(c, LAMBDA x : TraitTip(x, TraitValues[i][1], TraitValues[i][2])),
                   i + 1)

\* if 'risk_value' in locals() and risk_value > 50:
TipsShown(l) == "risk_value" \in DOMAIN l /\ l["risk_value"].n > RiskGate

Tips(c) ==
    IF TipsShown(c.locals)
    THEN TraitTips(Emit(Emit(c, El("markdown", "---", 0, 0, <<>>)),
                        El("subheader", "Personalized Tips", 0, 0, <<>>)), 1)
    ELSE c

-----------------------------------------------------------------------------
(* The script *)

\* a handler without the else branch: a missing row is passed over in silence
BranchWithoutElse(v, c, uid, e) ==
    IF c.found_row.found THEN Predict(v, c, uid, e) ELSE c

\* "if found_row is not None: try ... except ... else: st.error(error_msg)"
Branch(v, c, uid, e) ==
    IF c.found_row.found THEN Predict(v, c, uid, e)
    ELSE st_error(c, c.found_row.error_msg, <<>>)

\* a handler that fetches first and invalidates the cache afterwards
HandlerFetchingFirst(v, c0, ws, uid, e) ==
    Then(Then(Then(Then(get_row_by_id_from_google_sheet(c0, e, ws, uid),
                        LAMBDA c : Call(c, "clear_cache")),
                   LAMBDA c : Branch(v, c, uid, e)),
              LAMBDA c : TraitsUI(c)),
         LAMBDA c : Tips(c))

\* the body of "if st.button(...):"
Handler(v, c0, ws, uid, e) ==
    Then(Then(Then(get_row_by_id_from_google_sheet(Call(c0, "clear_cache"), e, ws, uid),
                   LAMBDA c : Branch(v, c, uid, e)),
              LAMBDA c : TraitsUI(c)),
         LAMBDA c : Tips(c))

\* a script that reports the absent model file and goes on
ScriptWithoutStop(c0, v, present, ws, uid, click, e) ==
    IF uid = <<>>
    THEN Emit(IF present THEN Call(c0, "joblib.load")
              ELSE st_error(Call(c0, "joblib.load"), "Model file not found", <<>>),
              El("text_input", "Enter your ID:", 0, 0, <<>>))
    ELSE IF ~click
    THEN Emit(Emit(IF present THEN Call(c0, "joblib.load")
                   ELSE st_error(Call(c0, "joblib.load"), "Model file not found", <<>>),
                   El("text_input", "Enter your ID:", 0, 0, <<>>)),
              El("button", "View Results", 0, 0, <<>>))
    ELSE Handler(v,
                 Emit(Emit(IF present THEN Call(c0, "joblib.load")
                           ELSE st_error(Call(c0, "joblib.load"),
                                         "Model file not found", <<>>),
                           El("text_input", "Enter your ID:", 0, 0, <<>>)),
                      El("button", "View Results", 0, 0, <<>>)),
                 ws, uid, e)

\* one run of the file, top to bottom, from the context c0
Script(c0, v, present, ws, uid, click, e) ==
    IF ~present
    THEN Halt(st_error(Call(c0, "joblib.load"), "Model file not found", <<>>), "stop")
    ELSE IF uid = <<>>
    THEN Emit(Call(c0, "joblib.load"), El("text_input", "Enter your ID:", 0, 0, <<>>))
    ELSE IF ~click
    THEN Emit(Emit(Call(c0, "joblib.load"),
                   El("text_input", "Enter your ID:", 0, 0, <<>>)),
              El("button", "View Results", 0, 0, <<>>))
    ELSE Handler(v,
                 Emit(Emit(Call(c0, "joblib.load"),
                           El("text_input", "Enter your ID:", 0, 0, <<>>)),
                      El("button", "View Results", 0, 0, <<>>)),
                 ws, uid, e)

\* a rerun that keeps the variables the previous run bound
RerunKeepingVariables(prev) == [Ctx0 EXCEPT !.locals = prev.locals]

\* the context a new run starts from: Streamlit executes the script in a
\* fresh namespace, whatever the previous run left in prev
Rerun(prev) == Ctx0

-----------------------------------------------------------------------------
(* The inputs the session is explored over *)

Row(id, peer, age, gender, conf, earned, imp, excl, pp, income) ==
    ("ID" :> id) @@ ("Peer pressure score" :> peer) @@ ("Age" :> age)
    @@ ("Gender" :> gender) @@ ("Confidence Level" :> conf)
    @@ ("Earned Recognition" :> earned) @@ ("Impulsivness" :> imp)
    @@ ("Exclusion Anxiety" :> excl) @@ ("People Pleaser" :> pp)
    @@ ("Income level" :> income)

BaseRow ==
    Row(PyInt(1), PyInt(60), PyInt(18), PyStr(<<"F">>), PyInt(10), PyInt(5),
        PyInt(7), PyInt(12), PyInt(12), PyStr(<<"L","o","w">>))

With(r, c, v) == [r EXCEPT ![c] = v]

\* a row whose fields M are missing: the column absent from the header, or
\* the cell read as NaN
WithMissing(r, M, kind) ==
    IF kind = "absent" THEN [c \in DOMAIN r \ M |-> r[c]]
    ELSE [c \in DOMAIN r |-> IF c \in M THEN NaN ELSE r[c]]

WithExtra(r, v) == r @@ ("Timestamp" :> v)

Required == {RequiredFields[i] : i \in 1..Len(RequiredFields)}

\* most required fields missing in one explored row
MaxMissing == 2

MissingSets == {M \in SUBSET Required : Cardinality(M) <= MaxMissing}

MissingSheets ==
    {<<WithMissing(BaseRow, M, k)>> : M \in MissingSets, k \in {"absent", "nan"}}
    \cup {<<WithExtra(WithMissing(BaseRow, M, k), x)>> :
            M \in {N \in MissingSets : Cardinality(N) <= 1},
            k \in {"absent", "nan"},
            x \in {NaN, PyStr(<<"t">>)}}
    \cup {<<WithMissing(WithMissing(BaseRow, {f}, "absent"), {g}, "nan")>> :
            f \in {"Age", "Gender"}, g \in {"Peer pressure score", "Income level"}}

Chars(t) == PyStr(t)

\* values a single field of an otherwise complete row takes
FieldValues(f) ==
    CASE f = "Peer pressure score" ->
            {PyInt(0), PyInt(50), PyInt(51), PyInt(100), PyInt(101), PyInt(-1),
             PyFloat(101, 2), Chars(<<"7","5">>), Chars(<<" ","5","1",".","5">>),
             Chars(<<"a","b","c">>), Chars(<<>>)}
      [] f = "Age" ->
            {PyInt(11), PyInt(12), PyInt(25), PyInt(26), PyFloat(37, 2),
             Chars(<<"1","8",".","7">>), Chars(<<>>)}
      [] f = "Gender" -> {Chars(<<"M">>), PyInt(1), Chars(<<>>)}
      [] f = "Confidence Level" -> {PyInt(0), PyInt(15), PyInt(16), PyInt(51)}
      [] f = "Earned Recognition" -> {PyInt(10), PyInt(11), PyFloat(21, 2)}
      [] f = "Impulsivness" -> {PyInt(15), PyInt(16), PyInt(60)}
      [] f = "Exclusion Anxiety" -> {PyInt(25), PyInt(26)}
      [] f = "People Pleaser" -> {PyInt(25), PyInt(26), PyInt(60)}
      [] OTHER ->
            {Chars(<<"l","o","w">>), Chars(<<"L","O","W">>),
             Chars(<<"m","e","d","i","u","m">>), Chars(<<"M","e","d","i","u","m">>),
             Chars(<<"h","i","g","h">>), Chars(<<"H","I","G","H">>),
             Chars(<<"H","i","g","h">>), Chars(<<"N","/","A">>), Chars(<<>>),
             PyInt(0), PyInt(1), PyInt(2), PyFloat(0, 1),
             PyFloat(2, 1), PyFloat(3, 2)}

ValueSheets ==
    UNION {{<<With(BaseRow, f, x)>> : x \in FieldValues(f)} : f \in Required}

\* rows of the worksheets that hold more than one row
RowPool ==
    {BaseRow,
     With(With(With(BaseRow, "ID", PyInt(2)), "Peer pressure score", PyInt(40)),
          "Income level", PyInt(2)),
     With(With(BaseRow, "ID", Chars(<<"1">>)), "Peer pressure score", PyInt(80))}

\* longest worksheet explored
MaxRows == 2

RECURSIVE Sheets(_)
Sheets(n) ==
    IF n = 0 THEN {<<>>}
    ELSE Sheets(n - 1)
         \cup {Append(ws, r) : ws \in {w \in Sheets(n - 1) : Len(w) = n - 1}, r \in RowPool}

\* a worksheet without the ID column
NoIdSheet == <<[c \in Required |-> BaseRow[c]]>>

\* a worksheet in which one identifier is not a whole number: the record
\* with ID 1 followed by a record with ID 2.5
FractionalIdSheet == <<BaseRow, With(BaseRow, "ID", PyFloat(5, 2))>>

Worksheets ==
    MissingSheets \cup ValueSheets \cup Sheets(MaxRows)
    \cup {NoIdSheet, FractionalIdSheet}

\* what the worksheet's owner changes it to between two requests
EditedSheets == {<<BaseRow>>}

UserIds == {<<>>, <<"1">>, <<"2">>}

RECURSIVE CaseVariants(_)
CaseVariants(t) ==
    IF t = <<>> THEN {<<>>}
    ELSE {<<ch>> \o rest : ch \in {lowerChar(Head(t)), upperChar(Head(t))},
                           rest \in CaseVariants(Tail(t))}

\* what model.predict(...)[0] gives: a label, a numeric class, or an exception
PredictOutcomes ==
    {PyStr(<<"l","o","w">>), PyStr(<<"M","e","d","i","u","m">>),
     PyStr(<<"h","i","g","h">>), PyStr(<<"H","I","G","H">>),
     PyStr(<<"V","e","r","y"," ","H","i","g","h">>),
     PyStr(<<"v","e","r","y","h","i","g","h">>),
     NpInt(2), Raise("ValueError")}

-----------------------------------------------------------------------------
(* The session *)

\* creds: the service account credentials load; remote: how the calls to the
\* spreadsheet service end; read, sheet: whether get_all_records() returned,
\* and what; predict: what model.predict(...)[0] gave
IdleEnv == [creds |-> TRUE, remote |-> "ok", read |-> FALSE, sheet |-> <<>>,
            predict |-> None]

FetchOutcomes ==
    {[IdleEnv EXCEPT !.creds = FALSE]}
    \cup {[IdleEnv EXCEPT !.remote = r] : r \in {"ok", "network", "malformed"}}

\* the outcome o with the worksheet as the service holds it now
Reading(o) ==
    IF o.creds /\ o.remote = "ok"
    THEN [o EXCEPT !.read = TRUE, !.sheet = worksheet]
    ELSE o

\* an error or an exception is on the screen
Failed == \E i \in 1..Len(screen) : screen[i].el \in {"error", "exception"}

\* the state a finished run leaves
Shown(c, click, e, uid) ==
    /\ user_id' = uid
    /\ clicked' = click
    /\ env' = e
    /\ prev_failed' = Failed
    /\ log' = c.log
    /\ screen' = c.screen
    /\ locals' = c.locals
    /\ found_row' = c.found_row
    /\ input_data' = c.input_data
    /\ halt' = c.halt
    /\ UNCHANGED <<variant, model_file, worksheet>>

\* what the last run left
Session ==
    [log |-> log, screen |-> screen, locals |-> locals, found_row |-> found_row,
     input_data |-> input_data, halt |-> halt]

Run(click, e, uid) ==
    \E c \in {Script(Rerun(Session), variant, model_file, worksheet, uid, click, e)} :
        Shown(c, click, e, uid)

Offered(el) == \E i \in 1..Len(screen) : screen[i].el = el

\* the first run of a session left c
Left(c) ==
    /\ log = c.log
    /\ screen = c.screen
    /\ locals = c.locals
    /\ found_row = c.found_row
    /\ input_data = c.input_data
    /\ halt = c.halt

Init ==
    /\ variant \in {"A", "B"}
    /\ \/ model_file = TRUE /\ worksheet \in Worksheets
       \/ model_file = FALSE /\ worksheet \in EditedSheets
    /\ user_id = <<>>
    /\ clicked = FALSE
    /\ trigger = "start"
    /\ env = IdleEnv
    /\ prev_failed = FALSE
    /\ \E c \in {Script(Ctx0, variant, model_file, worksheet, <<>>, FALSE, IdleEnv)} :
          Left(c)

\* typing into the text input reruns the script; the button is not pressed
EnterId ==
    /\ Offered("text_input")
    /\ trigger' = "text_input"
    /\ \E id \in UserIds \ {user_id} : Run(FALSE, IdleEnv, id)

\* pressing the button reruns the script with st.button(...) returning True
ViewResults ==
    /\ Offered("button")
    /\ trigger' = "button"
    /\ \E o \in FetchOutcomes :
         \E c \in {Script(Rerun(Session), variant, model_file, worksheet, user_id,
                           TRUE, Reading(o))} :
            IF Occurs(c.log, "predict")
            THEN \E p \in PredictOutcomes :
                    Run(TRUE, [Reading(o) EXCEPT !.predict = p], user_id)
            ELSE Shown(c, TRUE, Reading(o), user_id)

\* the spreadsheet is edited by its owner
EditSheet ==
    /\ \E ws \in EditedSheets \ {worksheet} : worksheet' = ws
    /\ UNCHANGED <<variant, model_file, user_id, clicked, trigger, env, prev_failed,
                   log, screen, locals, found_row, input_data, halt>>

\* a displayed slider, or the age input, moved as if the button stayed pressed
AdjustTraitAsRequest ==
    \E k \in {"slider", "number_input"} :
        /\ Offered(k)
        /\ trigger' = k
        /\ Run(TRUE, [Reading(IdleEnv) EXCEPT !.predict = PyStr(<<"h","i","g","h">>)],
               user_id)

\* moving a displayed slider, or changing the age input, reruns the script;
\* st.button(...) returns False in that run, so the handler is skipped
AdjustTrait ==
    \E k \in {"slider", "number_input"} :
        /\ Offered(k)
        /\ trigger' = k
        /\ Run(FALSE, IdleEnv, user_id)

Next == EnterId \/ ViewResults \/ AdjustTrait \/ EditSheet

Spec == Init /\ [][Next]_vars

-----------------------------------------------------------------------------
(* The risk scorer over the labels a classifier may return: sessions with   *)
(* one complete record, whose request gets each label in turn.              *)

Label(t) == PyStr(t)

\* the four labels in every letter case, and labels outside the table
Labels ==
    {Label(t) : t \in CaseVariants(<<"l","o","w">>)
                      \cup CaseVariants(<<"m","e","d","i","u","m">>)
                      \cup CaseVariants(<<"h","i","g","h">>)
                      \cup CaseVariants(<<"v","e","r","y"," ","h","i","g","h">>)}
    \cup {Label(<<>>), Label(<<"l","o","w"," ">>), Label(<<" ","h","i","g","h">>),
          Label(<<"v","e","r","y","h","i","g","h">>),
          Label(<<"v","e","r","y","_","h","i","g","h">>),
          Label(<<"l","o">>), Label(<<"m","i","d">>), Label(<<"2">>),
          NpInt(2), PyInt(0), PyFloat(3, 2), None}

ScoreInit ==
    /\ variant \in {"A", "B"}
    /\ model_file = TRUE
    /\ worksheet = <<BaseRow>>
    /\ user_id = <<"1">>
    /\ clicked = FALSE
    /\ trigger = "text_input"
    /\ env = IdleEnv
    /\ prev_failed = FALSE
    /\ \E c \in {Script(Ctx0, variant, TRUE, <<BaseRow>>, <<"1">>, FALSE, IdleEnv)} :
          Left(c)

\* the first request of the session; its classifier call returns the label p
Classify ==
    /\ Offered("button") /\ ~clicked
    /\ trigger' = "button"
    /\ \E p \in Labels : Run(TRUE, [Reading(IdleEnv) EXCEPT !.predict = p], user_id)

ScoreNext == Classify

ScoreSpec == ScoreInit /\ [][ScoreNext]_vars

-----------------------------------------------------------------------------
(* What a request did, read off the state it left *)

Invoked == Occurs(log, "predict")

Count(seq, x) == Cardinality({i \in 1..Len(seq) : seq[i] = x})

Bound(x) == x \in DOMAIN locals

Elements(el) == {i \in 1..Len(screen) : screen[i].el = el}

ErrorShown(key) == \E i \in Elements("error") : screen[i].key = key

\* s read without regard to letter case is the lower-case word t
SameIgnoringCase(s, t) ==
    /\ Len(s) = Len(t)
    /\ \A i \in 1..Len(t) :
          \/ s[i] = t[i]
          \/ Occurs(Lowers, t[i]) /\ s[i] = Uppers[IndexIn(Lowers, t[i])]

\* the score the table of labels gives
ExpectedScore(label) ==
    IF SameIgnoringCase(label, <<"l","o","w">>) THEN 25
    ELSE IF SameIgnoringCase(label, <<"m","e","d","i","u","m">>) THEN 50
    ELSE IF SameIgnoringCase(label, <<"h","i","g","h">>) THEN 75
    ELSE IF SameIgnoringCase(label, <<"v","e","r","y"," ","h","i","g","h">>) THEN 100
    ELSE 0

\* the required fields a fetched record lacks: no such column, or a null cell
MissingRequired(row) == {f \in Required : f \notin DOMAIN row \/ isna(row[f])}

ValidationReported ==
    \/ ErrorShown("The following data is missing or invalid:")
    \/ ErrorShown("Missing fields in data")

-----------------------------------------------------------------------------
(* Claims *)

\* C1 (risk scorer): whenever the classifier has returned a label, the risk
\* score computed from it is 25, 50, 75 or 100 when the label, compared
\* without regard to letter case, is low, medium, high or very high, and 0 for
\* every other label.
C1_RiskScorer ==
    /\ (Invoked /\ ~Raised(env.predict)) =>
          /\ Bound("prediction") /\ locals["prediction"] = env.predict
          /\ Bound("risk_value")
    /\ Bound("risk_value") =>
          /\ Bound("prediction")
          /\ locals["risk_value"] = PyInt(ExpectedScore(str(locals["prediction"])))

\* a label in mixed case was scored
C1_MixedCaseScored ==
    /\ Bound("risk_value")
    /\ locals["prediction"] = Label(<<"V","e","r","y"," ","H","i","g","H">>)
    /\ locals["risk_value"] = PyInt(100)

\* C2 (validation short-circuit): in every request whose fetched record lacks
\* at least one of the nine required fields (column absent or cell null), a
\* validation error is reported and the classifier is not invoked.
C2_ValidationShortCircuit ==
    (clicked /\ found_row.found /\ MissingRequired(found_row.data) # {}) =>
        (ValidationReported /\ ~Invoked)

\* a record lacking a required field reached the classifier
C2_ClassifiedIncompleteRecord ==
    /\ clicked /\ found_row.found
    /\ MissingRequired(found_row.data) # {}
    /\ ~ValidationReported
    /\ Invoked

\* C3 (no prediction without a record): in every request whose fetch returned
\* no row, the message the fetch returned is displayed, the classifier is not
\* invoked, and no input table, risk score or gauge is produced.
C3_NoPredictionWithoutRecord ==
    (clicked /\ ~found_row.found) =>
        /\ ~Invoked
        /\ input_data = NoInput
        /\ ~Bound("prediction") /\ ~Bound("risk_value")
        /\ Elements("plotly_chart") = {} /\ Elements("success") = {}
        /\ found_row.error_msg # "" => ErrorShown(found_row.error_msg)
        /\ found_row.error_msg = "" => ~env.creds

\* no row matched the identifier, and the request said so
C3_NotFoundShown ==
    /\ clicked /\ ~found_row.found
    /\ env.read /\ Len(env.sheet) > 0
    /\ found_row.error_msg = "No record found for ID"
    /\ ErrorShown("No record found for ID")

\* the names a validation error lists, in the order shown
RECURSIVE Reported(_)
Reported(i) ==
    IF i > Len(screen) THEN <<>>
    ELSE (IF screen[i].el = "write"
             \/ (screen[i].el = "error" /\ screen[i].key = "Missing fields in data")
          THEN screen[i].items ELSE <<>>)
         \o Reported(i + 1)

\* the required field a reported name stands for; a name of anything else
\* stands for itself
FieldOf(name) ==
    IF Occurs(ErrorNames, name) THEN RequiredFields[IndexIn(ErrorNames, name)]
    ELSE name

\* C4 (complete and exact missing-field report): for every fetched record and
\* every non-empty set M of required fields missing in it, the request stops
\* with a validation error whose list names each field of M exactly once and
\* names nothing outside M.
C4_ExactMissingReport ==
    (clicked /\ found_row.found /\ MissingRequired(found_row.data) # {}) =>
        /\ ValidationReported /\ halt = "stop"
        /\ {FieldOf(Reported(1)[i]) : i \in 1..Len(Reported(1))}
              = MissingRequired(found_row.data)
        /\ Len(Reported(1)) = Cardinality(MissingRequired(found_row.data))

\* a validation error names a column that is not a required field
C4_ReportedOtherColumn ==
    /\ clicked /\ found_row.found /\ ValidationReported
    /\ MissingRequired(found_row.data) # {}
    /\ \E i \in 1..Len(Reported(1)) : FieldOf(Reported(1)[i]) \notin Required

SliderShown(var) == \E j \in Elements("slider") : screen[j].key = var

SliderValue(var) == screen[CHOOSE j \in Elements("slider") : screen[j].key = var].val

\* the advice bullets, and the heading, displayed for a trait
AdviceFor(trait) ==
    {j \in Elements("markdown") : screen[j].key = "tip" /\ screen[j].items = <<trait>>}

HeadingFor(trait) ==
    {j \in Elements("markdown") :
        screen[j].key = "heading" /\ screen[j].items = <<trait>>}

\* advice for a trait is displayed only with the risk score above 50 and the
\* trait's slider above its cutoff; this half of the gating holds in every
\* request
AdviceOnlyAboveCutoff ==
    \A i \in 1..Len(TraitValues) :
        (AdviceFor(TraitValues[i][1]) # {} \/ HeadingFor(TraitValues[i][1]) # {}) =>
            /\ Bound("risk_value") /\ locals["risk_value"].n > 50
            /\ SliderShown(TraitValues[i][2])
            /\ SliderValue(TraitValues[i][2]) > TraitCutoff

\* a request that ran to its end advised every trait above its cutoff
AdviceWhenRendered ==
    \A i \in 1..Len(TraitValues) :
        (/\ clicked /\ halt = "none"
         /\ Bound("risk_value") /\ locals["risk_value"].n > 50
         /\ SliderValue(TraitValues[i][2]) > TraitCutoff) =>
            /\ Cardinality(AdviceFor(TraitValues[i][1])) = TipsPerTrait
            /\ Cardinality(HeadingFor(TraitValues[i][1])) = 1

\* C5 (advice gating): in every request, advice for a trait is displayed only
\* if the risk score exceeds 50 and the trait's displayed slider value exceeds
\* the trait's cutoff, never for a slider value at or below the cutoff; and a
\* trait whose displayed slider value exceeds the cutoff, with the risk score
\* above 50, gets its whole advice list.
C5_AdviceGating ==
    \A i \in 1..Len(TraitValues) :
        /\ (AdviceFor(TraitValues[i][1]) # {} \/ HeadingFor(TraitValues[i][1]) # {}) =>
              /\ Bound("risk_value") /\ locals["risk_value"].n > 50
              /\ SliderShown(TraitValues[i][2])
              /\ SliderValue(TraitValues[i][2]) > TraitCutoff
        /\ (/\ clicked
            /\ Bound("risk_value") /\ locals["risk_value"].n > 50
            /\ SliderShown(TraitValues[i][2])
            /\ SliderValue(TraitValues[i][2]) > TraitCutoff) =>
              Cardinality(AdviceFor(TraitValues[i][1])) = TipsPerTrait

\* the peer pressure slider stands above the cutoff with the risk score above
\* 50, and the request ended without the advice
C5_AdviceNeverReached ==
    /\ clicked /\ halt = "exception"
    /\ Bound("risk_value") /\ locals["risk_value"].n > 50
    /\ SliderShown("peer_pressure") /\ SliderValue("peer_pressure") > TraitCutoff
    /\ AdviceFor("Peer pressure score") = {}

\* C6 (gauge shows the score): whenever the classifier has returned a label
\* for a record, one gauge is rendered whose displayed value and threshold
\* marker both equal the risk score computed in that request (75 and 75 for
\* the label high); a gauge is rendered only in a request that computed a
\* score.
C6_GaugeShowsScore ==
    /\ \A j \in Elements("plotly_chart") :
          /\ Invoked /\ Bound("risk_value")
          /\ screen[j].val = locals["risk_value"].n
          /\ screen[j].mark = locals["risk_value"].n
    /\ (clicked /\ Invoked /\ ~Raised(env.predict)) =>
          /\ Cardinality(Elements("plotly_chart")) = 1
          /\ locals["risk_value"] = PyInt(ExpectedScore(str(env.predict)))
    /\ (clicked /\ Invoked /\ env.predict = PyStr(<<"h","i","g","h">>)) =>
          \E j \in Elements("plotly_chart") : screen[j].val = 75 /\ screen[j].mark = 75

\* the label high put the gauge and its marker at 75
C6_GaugeAtSeventyFive ==
    /\ clicked /\ Invoked /\ env.predict = PyStr(<<"h","i","g","h">>)
    /\ \E j \in Elements("plotly_chart") : screen[j].val = 75 /\ screen[j].mark = 75

\* two numbers of equal value
SameNumber(a, b) == a.n * b.d = b.n * a.d

IsNumeric(x) == x.k \in {"int", "int64", "float"}

\* the ordinal the income table gives a string
ExpectedOrdinal(t) ==
    IF SameIgnoringCase(t, <<"l","o","w">>) THEN 0
    ELSE IF SameIgnoringCase(t, <<"h","i","g","h">>) THEN 2
    ELSE 1

\* C7 (income normalization): for every income level handed to the
\* classifier, the normalized value is 0 for low, 1 for medium and 2 for high
\* in any letter case, 1 for every other string, and the input's own value
\* when the input is a number.
C7_IncomeNormalization ==
    (clicked /\ Invoked /\ "Income level" \in DOMAIN found_row.data
     /\ ~isna(found_row.data["Income level"])) =>
        IF IsNumeric(found_row.data["Income level"])
        THEN /\ IsNumeric(input_data["Income level"])
             /\ SameNumber(input_data["Income level"], found_row.data["Income level"])
        ELSE input_data["Income level"]
                = PyInt(ExpectedOrdinal(found_row.data["Income level"].s))

\* a numeric income level reached the classifier as another number
C7_NumericIncomeChanged ==
    /\ clicked /\ Invoked
    /\ "Income level" \in DOMAIN found_row.data
    /\ found_row.data["Income level"] = NpInt(2)
    /\ input_data["Income level"] = PyInt(1)

\* elements of the traits and advice sections
TraitElements ==
    {j \in 1..Len(screen) :
        screen[j].el \in {"subheader", "slider", "number_input", "markdown"}}

\* C8 (failure aborts the request): in every request in which a stage fails
\* (the fetch returns no row, validation fails, or feature assembly or the
\* classifier call fails), an error is displayed and nothing of the traits
\* and advice sections is reached: no subheader, slider, age input or advice
\* is rendered, and no statement of those sections raises.
C8_FailureAborts ==
    (clicked /\ (~found_row.found \/ ValidationReported
                 \/ ErrorShown(CaughtMessage(variant)))) =>
        /\ Elements("error") # {}
        /\ TraitElements = {}
        /\ Elements("exception") = {}

\* the classifier call failed, and the trait sliders and age input were
\* rendered all the same
C8_TraitsAfterFailure ==
    /\ clicked /\ Invoked /\ Raised(env.predict)
    /\ ErrorShown(CaughtMessage(variant))
    /\ Elements("slider") # {} /\ Elements("number_input") # {}

Matches == MatchingRows(env.sheet, user_id)

\* C10 (fetcher outcome contract): in every request the fetch returns to the
\* handler either the matching row or a message: the not-found message
\* whenever no row of the worksheet matches the identifier (a worksheet
\* without rows included), and the service-error message whenever
\* authentication, the remote call or the sheet's layout fails.
C10_FetcherContract ==
    clicked =>
        /\ found_row.found \/ found_row.error_msg # ""
        /\ found_row.found => (env.read /\ Matches # {})
        /\ (env.read /\ Matches = {}
            /\ (env.sheet = <<>> \/ "ID" \in Columns(env.sheet))) =>
              (~found_row.found /\ found_row.error_msg = "No record found for ID")
        /\ (~env.creds \/ env.remote # "ok"
            \/ (env.read /\ env.sheet # <<>> /\ "ID" \notin Columns(env.sheet))) =>
              (~found_row.found /\ found_row.error_msg = "Error accessing Google Sheets")

\* a worksheet without rows was answered with the service-error message
C10_EmptySheetIsServiceError ==
    /\ clicked /\ env.read /\ env.sheet = <<>>
    /\ ~found_row.found
    /\ found_row.error_msg = "Error accessing Google Sheets"

\* rows of the worksheet as read whose ID cell, written as a string, is the
\* requested identifier
SheetMatches ==
    {i \in 1..Len(env.sheet) :
        "ID" \in DOMAIN env.sheet[i] /\ str(env.sheet[i]["ID"]) = user_id}

\* C11 (first match by string identity): in every request that read the
\* worksheet, a row is returned iff some row's ID, written as a string, equals
\* the requested identifier; the row returned is the first such row in
\* worksheet order, and its ID equals the identifier.
C11_FirstMatchByString ==
    (clicked /\ env.read /\ "ID" \in Columns(env.sheet)) =>
        /\ found_row.found <=> SheetMatches # {}
        /\ found_row.found =>
              /\ found_row.data = iloc(env.sheet, Min(SheetMatches))
              /\ str(env.sheet[Min(SheetMatches)]["ID"]) = user_id

\* the worksheet holds a row with ID 1, the identifier 1 was requested, and
\* the fetch reported that no record was found
C11_WholeIdNotFound ==
    /\ clicked /\ env.read /\ user_id = <<"1">>
    /\ \E i \in 1..Len(env.sheet) :
          "ID" \in DOMAIN env.sheet[i] /\ env.sheet[i]["ID"] = PyInt(1)
    /\ ~found_row.found
    /\ found_row.error_msg = "No record found for ID"

\* C12 (sliders are display-only): a run started by moving a trait slider or
\* changing the age input performs no cache invalidation, no fetch and no
\* classifier call and computes no risk score; every run that does any of
\* these was started by the button.
C12_SlidersDisplayOnly ==
    /\ trigger \in {"slider", "number_input"} =>
          /\ ~clicked
          /\ log = <<"joblib.load">>
          /\ found_row = NoRow /\ input_data = NoInput
          /\ ~Bound("prediction") /\ ~Bound("risk_value")
          /\ Elements("plotly_chart") = {}
    /\ (\/ Occurs(log, "clear_cache") \/ Occurs(log, "get_all_records")
        \/ Invoked \/ Bound("risk_value")) => (trigger = "button" /\ clicked)

\* a slider was moved after a request had displayed its result
C12_SliderMoved ==
    /\ trigger = "slider"
    /\ user_id # <<>>
    /\ Offered("button") /\ ~Offered("slider")

\* C13 (model absence is fatal at startup): when the model file is absent the
\* run shows the error naming the file and stops before the identifier input
\* and the button are rendered, so no request, fetch or classifier call ever
\* happens; when the file is present, loading the model is the first call of
\* every run, made once, before any request is handled.
C13_ModelAbsenceFatal ==
    /\ ~model_file =>
          /\ ErrorShown("Model file not found") /\ halt = "stop"
          /\ Len(screen) = 1
          /\ ~Offered("text_input") /\ ~Offered("button")
          /\ log = <<"joblib.load">>
          /\ ~clicked /\ trigger = "start"
          /\ found_row = NoRow /\ input_data = NoInput
    /\ model_file =>
          /\ log # <<>> /\ log[1] = "joblib.load"
          /\ Count(log, "joblib.load") = 1
          /\ ~ErrorShown("Model file not found")

\* a session started without the model file
C13_StartedWithoutModel ==
    /\ ~model_file
    /\ ErrorShown("Model file not found")
    /\ halt = "stop"

\* the external calls of a request that goes all the way, in order
RequestCalls ==
    <<"joblib.load", "clear_cache", "get_row_by_id_from_google_sheet", "authorize",
      "open_by_url", "worksheet", "get_all_records", "predict">>

Raw(f) == get(found_row.data, f)

\* the four trait scores handed over unchanged
PlainTraits ==
    {"Confidence Level", "Earned Recognition", "Impulsivness", "Exclusion Anxiety",
     "People Pleaser"}

\* peer pressure, age, gender and the plain trait scores of the table, against
\* the fetched record
FeaturesNormalized ==
    /\ Required \subseteq DOMAIN input_data
    /\ IsNumeric(Raw("Peer pressure score")) =>
          input_data["Peer pressure score"].n * Raw("Peer pressure score").d * 100
             = Raw("Peer pressure score").n * input_data["Peer pressure score"].d
    /\ (IsNumeric(Raw("Age")) /\ Raw("Age").n >= 0) =>
          input_data["Age"] = PyInt(Raw("Age").n \div Raw("Age").d)
    /\ input_data["Gender"].k = "str"
    /\ \A f \in PlainTraits :
          IsNumeric(Raw(f)) =>
             (input_data[f].k = "float" /\ SameNumber(input_data[f], Raw(f)))

\* these columns are as the contract says in every request that reached the
\* classifier
FeaturesNormalizedWhenInvoked == (clicked /\ Invoked) => FeaturesNormalized

\* C15 (classifier input contract): the table handed to the classifier has
\* exactly the nine named feature columns, with the peer pressure score equal
\* to the raw score divided by 100, the age equal to the integer part of the
\* raw age, the gender a string, the remaining trait scores equal to their raw
\* values, and the income the normalized ordinal.
C15_ClassifierInput ==
    (clicked /\ Invoked) =>
        /\ DOMAIN input_data = Required
        /\ FeaturesNormalized
        /\ IF IsNumeric(Raw("Income level"))
           THEN SameNumber(input_data["Income level"], Raw("Income level"))
           ELSE Raw("Income level").k = "str" =>
                   input_data["Income level"]
                      = PyInt(ExpectedOrdinal(Raw("Income level").s))

\* the classifier was handed a table of ten columns, the identifier among them
C15_IdentifierHandedOver ==
    /\ clicked /\ Invoked
    /\ "ID" \in DOMAIN input_data
    /\ input_data["ID"] = PyStr(user_id)
    /\ Cardinality(DOMAIN input_data) = 10

\* position of the validation error on the screen
ValidationAt ==
    CHOOSE i \in Elements("error") :
        screen[i].key \in {"The following data is missing or invalid:",
                           "Missing fields in data"}

\* C16 (validation failure halts the whole request): when the validation
\* step reports missing fields the request stops there: the classifier is not
\* called, and no gauge, success message, prediction error message, trait
\* slider, age input or advice is rendered; after the validation error the
\* screen holds nothing but the lines of its list.
C16_ValidationHalts ==
    ValidationReported =>
        /\ clicked /\ halt = "stop"
        /\ ~Invoked /\ input_data = NoInput /\ ~Bound("risk_value")
        /\ Elements("plotly_chart") = {} /\ Elements("success") = {}
        /\ ~ErrorShown("Error during prediction") /\ ~ErrorShown("An error occurred")
        /\ Cardinality(Elements("error")) = 1
        /\ TraitElements = {} /\ Elements("exception") = {}
        /\ \A j \in 1..Len(screen) : j > ValidationAt => screen[j].el = "write"

\* a record with two fields missing was reported and the request stopped
C16_StoppedAtValidation ==
    /\ ValidationReported /\ halt = "stop"
    /\ Cardinality(MissingRequired(found_row.data)) = 2
    /\ Len(Reported(1)) = 2

\* the widgets of the traits section on the screen
WidgetShown(w) == \E j \in Elements(w.kind) : screen[j].key = w.var

WidgetValue(w) == screen[CHOOSE j \in Elements(w.kind) : screen[j].key = w.var].val

\* the request classified its record and displayed the risk level
Classified == clicked /\ Invoked /\ Elements("success") # {}

\* a widget is displayed only with its value inside its declared range
ShownWithinRange ==
    \A i \in 1..Len(Widgets) :
        WidgetShown(Widgets[i]) =>
            /\ WidgetValue(Widgets[i]) >= Widgets[i].lo
            /\ WidgetValue(Widgets[i]) <= Widgets[i].hi

\* C17 (slider defaults stay in range): in every request whose record passed
\* validation and prediction, the traits section renders without error: the
\* six sliders and the age input are all displayed, each with an initial
\* value inside its declared range, and no statement of the section raises.
C17_DefaultsInRange ==
    Classified =>
        /\ halt = "none"
        /\ Elements("exception") = {}
        /\ \A i \in 1..Len(Widgets) :
              /\ WidgetShown(Widgets[i])
              /\ WidgetValue(Widgets[i]) >= Widgets[i].lo
              /\ WidgetValue(Widgets[i]) <= Widgets[i].hi

\* a record with confidence 16 was classified, and the confidence slider,
\* whose range ends at 15, raised
C17_ConfidenceAboveRange ==
    /\ Classified
    /\ Raw("Confidence Level") = NpInt(16)
    /\ halt = "exception"
    /\ \E j \in Elements("exception") : screen[j].key = "StreamlitAPIException"
    /\ SliderShown("peer_pressure") /\ ~SliderShown("confidence")

\* the traits for which a heading or an advice bullet is on the screen
Advised ==
    {t \in {TraitValues[i][1] : i \in 1..Len(TraitValues)} \cup TipKeys :
        AdviceFor(t) # {} \/ HeadingFor(t) # {}}

\* the classifier's label of this request is high or very high
LabelledHigh ==
    /\ clicked /\ Invoked /\ ~Raised(env.predict)
    /\ ExpectedScore(str(env.predict)) \in {75, 100}

\* C18 (reachable advice): in every reachable state, over all records,
\* classifier labels and slider moves, advice is on the screen only in a
\* request whose label is high or very high and only for the peer pressure
\* trait; no heading and no advice bullet of confidence, earned recognition,
\* impulsiveness, exclusion anxiety or people pleaser is ever displayed.
C18_ReachableAdvice ==
    /\ Advised \subseteq {"Peer pressure score"}
    /\ Advised # {} => /\ LabelledHigh
                       /\ trigger = "button"
                       /\ SliderValue("peer_pressure") > TraitCutoff
    /\ \A j \in Elements("markdown") :
          screen[j].key \in {"tip", "heading"} => screen[j].items = <<"Peer pressure score">>

\* the peer pressure advice is displayed for a record labelled HIGH
C18_PeerAdviceShown ==
    /\ Advised = {"Peer pressure score"}
    /\ env.predict = PyStr(<<"H","I","G","H">>)
    /\ Cardinality(AdviceFor("Peer pressure score")) = TipsPerTrait
    /\ Cardinality(HeadingFor("Peer pressure score")) = 1

====
